---- MODULE Spec2Model ----
(***************************************************************************)
(* Model of the classification-rule engine of classy (src/src/main.rs):    *)
(* parse_layout flattens the YAML layout into ClassifierPaths, and         *)
(* ClassifierPath::matches / classify_pdf match a page text against them.  *)
(* Strings (directory names, keywords, texts) are sequences of one-        *)
(* character strings, so that path composition and the word-boundary       *)
(* regular expression are computed character by character.                 *)
(***************************************************************************)
EXTENDS Integers, Sequences, FiniteSets, TLC

VARIABLES layout, config, text, matched, pc

vars == <<layout, config, text, matched, pc>>

(***************************************************************************)
(* Bounds of the model.                                                    *)
(***************************************************************************)
\* largest number of nodes in a layout given to parse_layout
MaxNodes == 3
\* largest number of nodes in a layout of the whole-program specification
MaxPipelineNodes == 3
\* largest number of keywords (and of rules) in a flat layout of SpecMatch
MaxKeywords == 2
\* largest length of a page text
MaxTextLen == 3

(***************************************************************************)
(* yaml_rust values: Yaml::String, Yaml::Integer (standing for every value *)
(* that is neither a string, an array nor a hash), Yaml::Array, Yaml::Hash *)
(* restricted to the three keys parse_layout reads.  An Option is a        *)
(* sequence of length 0 (None) or 1 (Some).                                *)
(***************************************************************************)
None == <<>>
Some(x) == <<x>>
IsSome(o) == Len(o) = 1

YString(s) == [tag |-> "String", str |-> s]
YInteger == [tag |-> "Integer"]
YArray(items) == [tag |-> "Array", items |-> items]
YHash(dir, keywords, sub) ==
    [tag |-> "Hash", dir |-> dir, keywords |-> keywords, sub |-> sub]

\* Yaml::as_str, Yaml::as_vec, Yaml::as_hash succeed on exactly one variant
IsStr(y) == y.tag = "String"
IsVec(y) == y.tag = "Array"
IsHash(y) == y.tag = "Hash"

(***************************************************************************)
(* std::path::PathBuf::push                                                *)
(***************************************************************************)
IsAbsolute(p) == Len(p) > 0 /\ p[1] = "/"

\* push replaces the whole path when the argument is absolute, and otherwise
\* appends it after a separator (added unless self is empty or ends in one)
PathPush(self, p) ==
    IF IsAbsolute(p) THEN p
    ELSE IF Len(self) > 0 /\ self[Len(self)] # "/" THEN self \o <<"/">> \o p
    ELSE self \o p

(***************************************************************************)
(* parse_layout.  Its result is Ok(paths), an anyhow error (Err) or a      *)
(* panic of one of the unwrap() calls.                                     *)
(***************************************************************************)
Ok(paths) == [kind |-> "Ok", paths |-> paths, msg |-> "-"]
Err(msg) == [kind |-> "Err", paths |-> <<>>, msg |-> msg]
Panic == [kind |-> "Panic", paths |-> <<>>, msg |-> "-"]
Unset == [kind |-> "Unset", paths |-> <<>>, msg |-> "-"]

ClassifierPath(path, keywords) == [path |-> path, keywords |-> keywords]

\* keywords.into_iter().map(|yaml| yaml.as_str().unwrap().to_string())
KeywordStrings(items) == [j \in 1..Len(items) |-> items[j].str]

PushPathIfKeywords(paths, new_path) ==
    IF Len(new_path.keywords) = 0 THEN paths ELSE Append(paths, new_path)

\* paths.push(new_path)
PushPath(paths, new_path) == Append(paths, new_path)

ExtendPathsBefore(paths, sub) == sub \o paths

\* paths.extend(sub)
ExtendPaths(paths, sub) == paths \o sub

InheritKeywordsForgotten(own, parent) == own

\* it.keywords.extend(path.keywords.clone())
InheritKeywords(own, parent) == own \o parent

\* the loop over the rules of the sub-directories, lines 204-209
Requalify(path, sub) ==
    [k \in 1..Len(sub) |->
        ClassifierPath(PathPush(path.path, sub[k].path),
                       InheritKeywords(sub[k].keywords, path.keywords))]

RECURSIVE parse_layout(_)
RECURSIVE LayoutLoop(_, _, _)

\* the body of `for dir in layout.iter()` for the i-th element, then the rest
LayoutLoop(lay, i, paths) ==
    IF i > Len(lay) THEN Ok(paths)
    ELSE LET dir == lay[i] IN
    IF ~IsHash(dir) THEN Err("Expected a hash map")
    ELSE IF ~IsSome(dir.dir) THEN Err("No 'dir' key found")
    ELSE IF ~IsStr(dir.dir[1]) THEN Panic
    ELSE IF IsSome(dir.keywords) /\ ~IsVec(dir.keywords[1])
         THEN Err("Unexpected keywords format")
    ELSE IF IsSome(dir.keywords)
            /\ \E j \in 1..Len(dir.keywords[1].items) :
                   ~IsStr(dir.keywords[1].items[j])
         THEN Panic
    ELSE LET path == ClassifierPath(
                         dir.dir[1].str,
                         IF IsSome(dir.keywords)
                         THEN KeywordStrings(dir.keywords[1].items)
                         ELSE <<>>)
             pushed == PushPath(paths, path)
         IN IF ~IsSome(dir.sub) THEN LayoutLoop(lay, i + 1, pushed)
            ELSE IF ~IsVec(dir.sub[1])
                 THEN Err("'sub' element should be a list of directories")
            ELSE LET sub == parse_layout(dir.sub[1].items) IN
                 IF sub.kind # "Ok" THEN sub
                 ELSE LayoutLoop(lay, i + 1,
                                 ExtendPaths(pushed, Requalify(path, sub.paths)))

parse_layout(lay) == LayoutLoop(lay, 1, <<>>)

(***************************************************************************)
(* regex::Regex for the pattern ["\\b", word, "\\b"].join("") over the     *)
(* characters the model uses: "a" and "b" are word characters, " " and "#" *)
(* are literals that are not word characters, "." matches any character    *)
(* but a line feed, and "(" opens a group that nothing closes.             *)
(***************************************************************************)
WordChars == {"a", "b"}

IsWordAt(t, k) == k >= 1 /\ k <= Len(t) /\ t[k] \in WordChars

\* \b holds between t[p] and t[p+1] when exactly one side is a word character
WordBoundary(t, p) == IsWordAt(t, p) # IsWordAt(t, p + 1)

\* Regex::new(..) is Err for an unclosed group, and unwrap() then panics
RegexCompiles(word) == \A k \in 1..Len(word) : word[k] # "("

AtomMatches(atom, c) == IF atom = "." THEN c # "\n" ELSE atom = c

\* Regex::is_match: the pattern matches somewhere in the text
is_match(word, t) ==
    \E p \in 0..(Len(t) - Len(word)) :
        /\ WordBoundary(t, p)
        /\ \A k \in 1..Len(word) : AtomMatches(word[k], t[p + k])
        /\ WordBoundary(t, p + Len(word))

(***************************************************************************)
(* ClassifierPath::matches.  The result is "true", "false", or "panic"     *)
(* when an unwrap() of a regex that does not compile is reached.           *)
(***************************************************************************)
RECURSIVE AllKeywords(_, _, _)

\* self.keywords.iter().all(..): stops at the first keyword that fails
AllKeywords(keywords, k, t) ==
    IF k > Len(keywords) THEN "true"
    ELSE IF ~RegexCompiles(keywords[k]) THEN "panic"
    ELSE IF ~is_match(keywords[k], t) THEN "false"
    ELSE AllKeywords(keywords, k + 1, t)

matchesAlsoWhenEmpty(self, t) == AllKeywords(self.keywords, 1, t)

matches(self, t) ==
    LET contains == AllKeywords(self.keywords, 1, t) IN
    IF contains = "panic" THEN "panic"
    ELSE IF Len(self.keywords) # 0 /\ contains = "true" THEN "true"
    ELSE "false"

\* config.iter().filter(|path| path.matches(text)).collect(): the matches are
\* references into config, modelled as the indices of the rules kept
Matched(idx) == [kind |-> "Ok", idx |-> idx]
MatchPanic == [kind |-> "Panic", idx |-> <<>>]
MatchUnset == [kind |-> "Unset", idx |-> <<>>]

RECURSIVE FilterLoop(_, _, _, _)

FilterLoop(paths, i, t, kept) ==
    IF i > Len(paths) THEN Matched(kept)
    ELSE LET m == matches(paths[i], t) IN
         IF m = "panic" THEN MatchPanic
         ELSE FilterLoop(paths, i + 1, t, IF m = "true" THEN Append(kept, i) ELSE kept)

classify_pdf(paths, t) == FilterLoop(paths, 1, t, <<>>)

(***************************************************************************)
(* Inputs: page texts and layouts.                                         *)
(***************************************************************************)
TextChars == {"a", "b", " ", "#"}
Texts == UNION {[1..n -> TextChars] : n \in 0..MaxTextLen}

\* keywords: two words, a literal that is no word character, and two
\* regular-expression metacharacters
Keywords == {<<"a">>, <<"a", "b">>, <<"#">>, <<".">>, <<"(">>}

YStrings(words) == [j \in 1..Len(words) |-> YString(words[j])]

\* A layout is drawn as a shape and one template per node.  The shape gives
\* each node, numbered in document order, its parent (0 for a top-level
\* node): the parent of node i is node i - 1 or one of the nodes that enclose
\* node i - 1.  A template is a hash with its "dir", "keywords" and "sub"
\* entries, or a value that is no hash; the children of a node replace the
\* "sub" entry of its template.
RECURSIVE Enclosing(_, _)

Enclosing(parent, i) ==
    IF i = 0 THEN {0} ELSE {i} \cup Enclosing(parent, parent[i])

Shapes(n) ==
    {parent \in [1..n -> 0..n] :
        \A i \in 1..n : parent[i] < i /\ parent[i] \in Enclosing(parent, i - 1)}

ChildrenOf(parent, i) ==
    LET ids == {j \in DOMAIN parent : parent[j] = i}
        nth[k \in 1..Cardinality(ids)] ==
            CHOOSE j \in ids : Cardinality({m \in ids : m < j}) = k - 1
    IN nth

RECURSIVE BuildNode(_, _, _)

BuildNode(parent, tpl, i) ==
    LET ch == ChildrenOf(parent, i) IN
    IF Len(ch) = 0 THEN tpl[i]
    ELSE YHash(tpl[i].dir, tpl[i].keywords,
               Some(YArray([k \in 1..Len(ch) |-> BuildNode(parent, tpl, ch[k])])))

BuildLayout(parent, tpl) ==
    LET ch == ChildrenOf(parent, 0) IN
    [k \in 1..Len(ch) |-> BuildNode(parent, tpl, ch[k])]

\* a node with children is drawn from the templates that are hashes without
\* a "sub" entry, so that no layout is drawn twice
Fits(parent, tpl) ==
    \A i \in DOMAIN parent :
        (\E j \in DOMAIN parent : parent[j] = i)
            => IsHash(tpl[i]) /\ ~IsSome(tpl[i].sub)

\* templates without a defect: relative and absolute names, with and without
\* keywords, with no "sub" entry or an empty one
GoodTemplates ==
    {YHash(Some(YString(d)), k, s) :
        d \in {<<"a">>, <<"/", "b">>},
        k \in {None, Some(YArray(YStrings(<<<<"a">>>>))),
                     Some(YArray(YStrings(<<<<"b">>>>)))},
        s \in {None, Some(YArray(<<>>))}}

\* templates with the defects parse_layout meets: a node that is no hash, no
\* "dir" entry, a "dir" that is no string, "keywords" that is no array, a
\* keyword that is no string, a "sub" that is no array
DefectTemplates ==
    {YInteger} \cup
    {YHash(l[1], l[2], s) :
        l \in { <<Some(YString(<<"a">>)), None>>,
                <<Some(YString(<<"a">>)), Some(YArray(YStrings(<<<<"a">>>>)))>>,
                <<None, None>>,
                <<Some(YInteger), None>>,
                <<Some(YString(<<"a">>)), Some(YInteger)>>,
                <<Some(YString(<<"a">>)), Some(YArray(<<YInteger>>))>> },
        s \in {None, Some(YInteger)}}

\* the templates of the whole program: one name, keywords "a", "b", "(" or
\* none, and a node that is no hash
PipelineTemplates ==
    {YInteger} \cup
    {YHash(Some(YString(<<"a">>)), k, None) :
        k \in {None, Some(YArray(YStrings(<<<<"a">>>>))),
                     Some(YArray(YStrings(<<<<"b">>>>))),
                     Some(YArray(YStrings(<<<<"(">>>>)))}}

\* lay is a layout of at most n nodes over the templates T
IsLayoutOver(lay, n, T) ==
    \E m \in 0..n : \E parent \in Shapes(m) : \E tpl \in [1..m -> T] :
        /\ Fits(parent, tpl)
        /\ lay = BuildLayout(parent, tpl)

\* flat layouts: r directories without "sub" that carry at most k keywords
\* in total, in every distribution and order
RECURSIVE FlatLayouts(_, _)

FlatLayouts(r, k) ==
    IF r = 0 THEN {<<>>}
    ELSE UNION {{<<YHash(Some(YString(<<"a">>)),
                         IF j = 0 THEN None ELSE Some(YArray(YStrings(kws))),
                         None)>> \o rest :
                     kws \in [1..j -> Keywords], rest \in FlatLayouts(r - 1, k - j)} :
                j \in 0..k}

MatchLayouts == UNION {FlatLayouts(r, MaxKeywords) : r \in 0..MaxKeywords}

(***************************************************************************)
(* The program.  pc is "parse" before parse_config, "walk" while main      *)
(* iterates over the files, "failed" when main returned the error,         *)
(* "classified" when classify_pdf holds the matches of a file, "panicked"   *)
(* when an unwrap() aborted the process, "exit" at the end.                *)
(***************************************************************************)
\* parse_config: the rules of the layout, or its error out of main
ParseConfig ==
    /\ pc = "parse"
    /\ config' = parse_layout(layout)
    /\ pc' = CASE config'.kind = "Ok" -> "walk"
               [] config'.kind = "Err" -> "failed"
               [] OTHER -> "panicked"
    /\ UNCHANGED <<layout, text, matched>>

\* classify_pdf on the next file, whose first page has any text, up to the
\* collection of the matches
ClassifyPdf ==
    /\ pc = "walk"
    /\ \E t \in Texts :
        /\ text' = t
        /\ matched' = classify_pdf(config.paths, t)
    /\ pc' = IF matched'.kind = "Ok" THEN "classified" ELSE "panicked"
    /\ UNCHANGED <<layout, config>>

\* classify_pdf prints the matches and returns: its locals are dropped
Report ==
    /\ pc = "classified"
    /\ text' = <<>>
    /\ matched' = MatchUnset
    /\ pc' = "walk"
    /\ UNCHANGED <<layout, config>>

\* the loop over the files ends and main returns Ok(())
Exit ==
    /\ pc = "walk"
    /\ pc' = "exit"
    /\ UNCHANGED <<layout, config, text, matched>>

\* the whole program
Init ==
    /\ IsLayoutOver(layout, MaxPipelineNodes, PipelineTemplates)
    /\ config = Unset
    /\ text = <<>>
    /\ matched = MatchUnset
    /\ pc = "parse"

Next == ParseConfig \/ ClassifyPdf \/ Report \/ Exit

Spec == Init /\ [][Next]_vars

\* parse_layout on its own, over the well-formed and the malformed layouts
InitCompile ==
    /\ \/ IsLayoutOver(layout, MaxNodes, GoodTemplates)
       \/ IsLayoutOver(layout, MaxNodes, DefectTemplates)
    /\ config = Unset
    /\ text = <<>>
    /\ matched = MatchUnset
    /\ pc = "parse"

NextCompile == ParseConfig

SpecCompile == InitCompile /\ [][NextCompile]_vars

\* the matcher on its own, from the state parse_config leaves for a flat layout
InitMatch ==
    /\ layout \in MatchLayouts
    /\ config = parse_layout(layout)
    /\ text = <<>>
    /\ matched = MatchUnset
    /\ pc = "walk"

NextMatch == ClassifyPdf \/ Report \/ Exit

SpecMatch == InitMatch /\ [][NextMatch]_vars

(***************************************************************************)
(* The layout as a tree: the position of a node is the sequence of the     *)
(* indices that lead to it, document order is the order of the positions,  *)
(* and Rank is the place of a node in that order.                          *)
(***************************************************************************)
Set(seq) == {seq[k] : k \in DOMAIN seq}

SubNodes(node) ==
    IF IsHash(node) /\ IsSome(node.sub) /\ IsVec(node.sub[1])
    THEN node.sub[1].items ELSE <<>>

RECURSIVE Positions(_)

Positions(lay) ==
    UNION {{<<i>>} \cup {<<i>> \o q : q \in Positions(SubNodes(lay[i]))} :
               i \in 1..Len(lay)}

RECURSIVE NodeAt(_, _)

NodeAt(lay, pos) ==
    IF Len(pos) = 1 THEN lay[pos[1]]
    ELSE NodeAt(SubNodes(lay[pos[1]]), Tail(pos))

Front(pos) == SubSeq(pos, 1, Len(pos) - 1)

IsAncestor(q, pos) == Len(q) < Len(pos) /\ SubSeq(pos, 1, Len(q)) = q

DocBefore(q, pos) ==
    \/ IsAncestor(q, pos)
    \/ \E k \in 1..Len(q) :
           /\ k <= Len(pos)
           /\ SubSeq(q, 1, k - 1) = SubSeq(pos, 1, k - 1)
           /\ q[k] < pos[k]

Rank(lay, pos) == Cardinality({q \in Positions(lay) : DocBefore(q, pos)}) + 1

NodeCount(lay) == Cardinality(Positions(lay))

\* the four defects of a configuration node
NotMapping(node) == ~IsHash(node)
NoDir(node) == IsHash(node) /\ ~IsSome(node.dir)
BadKeywords(node) ==
    /\ IsHash(node) /\ IsSome(node.keywords)
    /\ \/ ~IsVec(node.keywords[1])
       \/ \E j \in 1..Len(node.keywords[1].items) : ~IsStr(node.keywords[1].items[j])
BadSub(node) == IsHash(node) /\ IsSome(node.sub) /\ ~IsVec(node.sub[1])

Malformed(node) ==
    NotMapping(node) \/ NoDir(node) \/ BadKeywords(node) \/ BadSub(node)

\* a "dir" entry that is no string
UnnamedDir(node) == IsHash(node) /\ IsSome(node.dir) /\ ~IsStr(node.dir[1])

WellFormed(lay) ==
    \A pos \in Positions(lay) :
        ~Malformed(NodeAt(lay, pos)) /\ ~UnnamedDir(NodeAt(lay, pos))

OwnName(lay, pos) == NodeAt(lay, pos).dir[1].str

OwnKeywords(lay, pos) ==
    LET node == NodeAt(lay, pos) IN
    IF IsSome(node.keywords) THEN Set(KeywordStrings(node.keywords[1].items)) ELSE {}

\* the keywords of a node and of all the nodes that enclose it
AllKeywordsOf(lay, pos) ==
    UNION {OwnKeywords(lay, SubSeq(pos, 1, k)) : k \in 1..Len(pos)}

RECURSIVE JoinNames(_)

JoinNames(names) ==
    IF Len(names) = 1 THEN names[1]
    ELSE names[1] \o <<"/">> \o JoinNames(Tail(names))

\* the names from the top-level ancestor down to the node, joined by "/"
JoinedNames(lay, pos) ==
    JoinNames([k \in 1..Len(pos) |-> OwnName(lay, SubSeq(pos, 1, k))])

EndsWith(path, name) ==
    Len(name) <= Len(path)
    /\ SubSeq(path, Len(path) - Len(name) + 1, Len(path)) = name

\* std::path::Path::components and Path::starts_with: the root, then the
\* non-empty segments between separators
RECURSIVE Segments(_, _)

Segments(path, cur) ==
    IF Len(path) = 0 THEN (IF Len(cur) = 0 THEN <<>> ELSE <<cur>>)
    ELSE IF path[1] = "/"
         THEN (IF Len(cur) = 0 THEN <<>> ELSE <<cur>>) \o Segments(Tail(path), <<>>)
         ELSE Segments(Tail(path), Append(cur, path[1]))

Components(path) ==
    (IF IsAbsolute(path) THEN << <<"/">> >> ELSE <<>>) \o Segments(path, <<>>)

PathStartsWith(path, base) ==
    LET c == Components(path)
        b == Components(base)
    IN Len(b) <= Len(c) /\ SubSeq(c, 1, Len(b)) = b

\* the rule compiled for the node at a position, once every node has a rule
Compiled == config.kind = "Ok" /\ Len(config.paths) = NodeCount(layout)
RuleOf(pos) == config.paths[Rank(layout, pos)]

(***************************************************************************)
(* Claims on parse_layout, under SpecCompile.                              *)
(***************************************************************************)
\* C1: for a layout without a malformed node, parse_layout returns Ok with
\* exactly one rule per node, with or without children and keywords (and no
\* rule for the empty layout).
C1_OneRulePerNode ==
    (pc # "parse" /\ WellFormed(layout))
        => config.kind = "Ok" /\ Len(config.paths) = NodeCount(layout)

\* a compiled layout of three nodes, one of them with a child and one
\* without keywords
C1_Witness ==
    /\ pc = "walk" /\ WellFormed(layout)
    /\ NodeCount(layout) = 3 /\ Len(config.paths) = 3
    /\ \E pos \in Positions(layout) : Len(pos) = 2
    /\ \E pos \in Positions(layout) : OwnKeywords(layout, pos) = {}

\* C2 (as claimed): the rule of every node of a well-formed layout has the
\* names of its ancestors and its own name, joined in that order, as its
\* destination, and the union of their keywords as its keywords.
C2_DestinationAndKeywords ==
    (pc # "parse" /\ WellFormed(layout))
        => /\ Compiled
           /\ \A pos \in Positions(layout) :
                  /\ RuleOf(pos).path = JoinedNames(layout, pos)
                  /\ Set(RuleOf(pos).keywords) = AllKeywordsOf(layout, pos)

\* C3 (as claimed): the rule of a child node has all the keywords of the
\* rule of its parent, and a destination that starts with the destination
\* of its parent, whatever the names are.
C3_ChildExtendsParent ==
    (pc # "parse" /\ WellFormed(layout))
        => /\ Compiled
           /\ \A pos \in Positions(layout) :
                  Len(pos) > 1 =>
                      /\ Set(RuleOf(Front(pos)).keywords) \subseteq Set(RuleOf(pos).keywords)
                      /\ PathStartsWith(RuleOf(pos).path, RuleOf(Front(pos)).path)

\* C4: the rules are in document order of the nodes (depth first, a node
\* before its descendants, siblings in input order): the rule at the rank of
\* a node is the rule of that node, as its name and its keywords show.
C4_PreOrder ==
    (pc # "parse" /\ WellFormed(layout))
        => /\ Compiled
           /\ \A pos \in Positions(layout) :
                  /\ EndsWith(RuleOf(pos).path, OwnName(layout, pos))
                  /\ Set(RuleOf(pos).keywords) = AllKeywordsOf(layout, pos)

\* a node with a child, followed by a sibling, the three rules with
\* different keywords
C4_Witness ==
    /\ pc = "walk" /\ WellFormed(layout)
    /\ Positions(layout) = {<<1>>, <<1, 1>>, <<2>>}
    /\ Set(config.paths[1].keywords) = {<<"a">>}
    /\ Set(config.paths[2].keywords) = {<<"a">>, <<"b">>}
    /\ Set(config.paths[3].keywords) = {}

\* the first malformed node of the layout, in document order
FirstMalformed(lay) ==
    CHOOSE pos \in Positions(lay) :
        /\ Malformed(NodeAt(lay, pos))
        /\ \A q \in Positions(lay) : DocBefore(q, pos) => ~Malformed(NodeAt(lay, q))

DefectMessages(node) ==
    (IF NotMapping(node) THEN {"Expected a hash map"} ELSE {})
    \cup (IF NoDir(node) THEN {"No 'dir' key found"} ELSE {})
    \cup (IF BadKeywords(node) THEN {"Unexpected keywords format"} ELSE {})
    \cup (IF BadSub(node) THEN {"'sub' element should be a list of directories"} ELSE {})

\* C9 (as claimed): for a layout with a malformed node (and every "dir" a
\* string), parse_layout returns the error of the first malformed node in
\* document order, no rule, and does not abort in another way.
C9_FailsFast ==
    (/\ pc # "parse"
     /\ \E pos \in Positions(layout) : Malformed(NodeAt(layout, pos))
     /\ \A pos \in Positions(layout) : ~UnnamedDir(NodeAt(layout, pos)))
        => /\ config.kind = "Err"
           /\ config.paths = <<>>
           /\ config.msg \in DefectMessages(NodeAt(layout, FirstMalformed(layout)))

(***************************************************************************)
(* Claims on ClassifierPath::matches and classify_pdf, under SpecMatch.    *)
(***************************************************************************)
InMatched(i) == \E k \in 1..Len(matched.idx) : matched.idx[k] = i

\* the keyword occurs in the text, character for character
LiteralOccurs(word, t) ==
    \E p \in 0..(Len(t) - Len(word)) : SubSeq(t, p + 1, p + Len(word)) = word

\* the keyword occurs in the text with, on each side, a character that is
\* no word character or an end of the text
LiteralWholeWord(word, t) ==
    \E p \in 0..(Len(t) - Len(word)) :
        /\ SubSeq(t, p + 1, p + Len(word)) = word
        /\ ~IsWordAt(t, p)
        /\ ~IsWordAt(t, p + Len(word) + 1)

\* C5: a rule without keywords is never among the matches, whatever the
\* text is, the empty text included.
C5_EmptyNeverMatches ==
    \A k \in 1..Len(matched.idx) :
        Len(config.paths[matched.idx[k]].keywords) # 0

\* the empty text was classified against rules of which one has no keywords
C5_Witness ==
    /\ pc = "classified" /\ text = <<>>
    /\ \E i \in 1..Len(config.paths) : Len(config.paths[i].keywords) = 0

\* C6 (as claimed): a rule with keywords matches a text exactly when each of
\* its keywords occurs in the text as a whole word, case-sensitively.
C6_AllWholeWords ==
    pc = "classified" =>
        \A i \in 1..Len(config.paths) :
            Len(config.paths[i].keywords) # 0 =>
                (InMatched(i) <=>
                    \A w \in Set(config.paths[i].keywords) : LiteralWholeWord(w, text))

\* C7 (as claimed): for every rule list and text the matcher has a result,
\* which is the rules that match the text, each once, in the order of the
\* rule list (the empty sequence when none matches).
C7_ExactSubsequence ==
    pc \in {"classified", "panicked"} =>
        /\ matched.kind = "Ok"
        /\ \A k \in 1..(Len(matched.idx) - 1) : matched.idx[k] < matched.idx[k + 1]
        /\ \A i \in 1..Len(config.paths) :
               InMatched(i) <=> matches(config.paths[i], text) = "true"

\* C8 (as claimed): matching never aborts on a keyword, and a rule that
\* matches has each of its keywords literally in the text.
C8_KeywordsAreLiteral ==
    /\ pc # "panicked"
    /\ pc = "classified" =>
           \A i \in 1..Len(config.paths) :
               InMatched(i) =>
                   \A w \in Set(config.paths[i].keywords) : LiteralOccurs(w, text)

(***************************************************************************)
(* Claim on the whole program, under Spec.                                 *)
(***************************************************************************)
\* C10: when the rule of a node is among the matches of a text, so is the
\* rule of each of its ancestors that has keywords.
C10_AncestorsMatch ==
    pc = "classified" =>
        \A pos \in Positions(layout) : \A q \in Positions(layout) :
            (/\ IsAncestor(q, pos)
             /\ InMatched(Rank(layout, pos))
             /\ Len(config.paths[Rank(layout, q)].keywords) # 0)
                => InMatched(Rank(layout, q))

\* a child with its own keyword under a parent with another keyword, and a
\* text that both rules match
C10_Witness ==
    /\ pc = "classified"
    /\ \E pos \in Positions(layout) :
           /\ Len(pos) = 2
           /\ OwnKeywords(layout, pos) = {<<"b">>}
           /\ OwnKeywords(layout, Front(pos)) = {<<"a">>}
           /\ InMatched(Rank(layout, pos))
           /\ InMatched(Rank(layout, Front(pos)))

====
